---- MODULE Spec2Model ----
(***************************************************************************)
(* Model of the elliptic-curve engine in src/point_arithmetic and          *)
(* src/keypair_deriv: prime-field arithmetic (FieldElement), affine points *)
(* (EcPoint), Jacobian points (JacobianPoint) and KeyPair::generate.       *)
(*                                                                         *)
(* TLC has no 256-bit integers, so the machine word and the curve are      *)
(* scaled down together.  The source's U256 becomes an unsigned word of    *)
(* UBits bits and the secp256k1 prime becomes P = 43, which keeps what the *)
(* code depends on: P is prime, P = 1 (mod 3), P = 3 (mod 4), the top bit  *)
(* of the word is set in P (2^(UBits-1) < P < 2^UBits, so the raw sum of   *)
(* two residues can leave the word), the gap 2^UBits - P exceeds the small *)
(* literals 2, 3, 7, 8 of the code, and y^2 = x^3 + 7 over P has prime     *)
(* order N = 31 < P (no point with y = 0 or x = 0 lies on the curve).      *)
(*                                                                         *)
(* Every function of the source is an operator that computes what the code *)
(* computes.  A call has one of three outcomes: it returns a value, it     *)
(* panics (U256 arithmetic panics on overflow; panic!, todo!), or it never *)
(* returns (the while loop of inverse revisits a loop state).              *)
(***************************************************************************)
EXTENDS Integers, FiniteSets, Sequences, TLC

VARIABLES
    pc,       \* "idle" | "inverse_loop" | "chain" | "returned" | "panicked"
              \* | "hung"
    call,     \* the operation under way and its arguments
    ret,      \* the outcome of the last finished call
    euclid,   \* inverse's loop variables (t, new_t, r, new_r)
    visited   \* loop states inverse's while loop has already been in

vars == <<pc, call, ret, euclid, visited>>

----------------------------------------------------------------------------
(* Program constants (scaled, see above).                                  *)

\* width in bits of primitive_types::U256
UBits == 6
\* the field prime
P == 43
\* curve coefficients of y^2 = x^3 + A*x + B
A == 0
B == 7
\* the order of the group generated by G
N == 31
\* the generator's coordinates
G_X == 2
G_Y == 12

(* Bounds of the explored inputs.                                          *)

\* Jacobian representatives (x*z^2, y*z^3, z) of curve points use z in 1..MaxZ
MaxZ == 5
\* arbitrary (also off-curve) Jacobian triples use coordinates in 0..MaxCoord
MaxCoord == 3
\* number of successive doublings in a doubling chain
MaxDoublings == 3
\* the operand pairs compared across the two representations use z in
\* 1..MaxZPair
MaxZPair == 3

----------------------------------------------------------------------------
(* Outcomes of a call.                                                     *)

\* a returned field element; a returned point (affine or Jacobian)
Ok(v) == [status |-> "ok", value |-> v]
OkPoint(p) == [status |-> "ok", point |-> p]
Panic(m) == [status |-> "panic", msg |-> m]
Diverges == [status |-> "diverges"]
NoRet == [status |-> "none"]
NoCall == [op |-> "none"]
NoLoop == [t |-> 0, new_t |-> 0, r |-> 0, new_r |-> 0]

IsOk(o) == o.status = "ok"

\* 2^UBits: one past U256::MAX
U256Limit == 2 ^ UBits

\* the canonical residues
Field == 0 .. (P - 1)

----------------------------------------------------------------------------
(* modular_arithmetic.rs                                                   *)

\* U256 + U256: panics on overflow of the word
U256Add(a, b) ==
    IF a + b >= U256Limit
    THEN Panic("arithmetic operation overflow")
    ELSE Ok(a + b)

\* new without the reduction
FieldElementNewUnreduced(value) == value

\* FieldElement::new
FieldElementNew(value) ==
    LET res == value % P
    IN  IF res < 0 THEN res + P ELSE res

\* multiply: full_mul into U512, % P, low four limbs
multiply(a, b) ==
    LET result == a * b
        reduced == result % P
        lower_256 == reduced % U256Limit
    IN  lower_256

\* impl Add for FieldElement
FieldAdd(a, b) ==
    LET sum == U256Add(a, b)
    IN  IF IsOk(sum) THEN Ok(FieldElementNew(sum.value)) ELSE sum

\* subtraction that stops at zero in place of wrapping around P
FieldSubSaturating(a, b) ==
    FieldElementNew(IF a >= b THEN a - b ELSE 0)

\* impl Sub for FieldElement
FieldSub(a, b) ==
    LET res == IF a >= b THEN a - b ELSE P - (b - a)
    IN  FieldElementNew(res)

\* a wrapping 256-bit product in place of full_mul
FieldMulWrapping(a, b) ==
    FieldElementNew(((a * b) % U256Limit) % P)

\* impl Mul for FieldElement
FieldMul(a, b) ==
    LET result == a * b
        reduced == result % P
        lower_256 == reduced % U256Limit
    IN  FieldElementNew(lower_256)

\* inverse without its zero check
InverseEntryNoZeroCheck(value) ==
    IF value >= P
    THEN Panic("the value is not in the field")
    ELSE [status |-> "loop",
          state |-> [t |-> 0, new_t |-> 1, r |-> P, new_r |-> value]]

\* FieldElement::inverse up to the while loop: the two guards and the
\* initial loop variables
InverseEntry(value) ==
    IF value = 0
    THEN Panic("Cannot inverse a zero value")
    ELSE IF value >= P
    THEN Panic("the value is not in the field")
    ELSE [status |-> "loop",
          state |-> [t |-> 0, new_t |-> 1, r |-> P, new_r |-> value]]

\* one iteration of inverse's while loop
InverseStep(s) ==
    LET quotient == s.r \div s.new_r
        prod == multiply(quotient, s.new_t)
        next_t == IF s.t >= prod THEN s.t - prod ELSE P - (prod - s.t)
    IN  [t |-> s.new_t, new_t |-> next_t,
         r |-> s.new_r, new_r |-> s.r - multiply(quotient, s.new_r)]

\* inverse after the while loop
InverseFinish(s) ==
    IF s.r > 1
    THEN Panic("the inverse does not exist")
    ELSE Ok(FieldElementNew(s.t))

\* inverse's while loop run to its end; the loop is deterministic, so a
\* loop state met twice is met forever
RECURSIVE InverseLoop(_, _)
InverseLoop(s, seen) ==
    IF s.new_r = 0 THEN InverseFinish(s)
    ELSE IF s \in seen THEN Diverges
    ELSE InverseLoop(InverseStep(s), seen \cup {s})

\* FieldElement::inverse as one call
inverse(value) ==
    LET e == InverseEntry(value)
    IN  IF e.status = "loop" THEN InverseLoop(e.state, {}) ELSE e

\* impl Div for FieldElement
FieldDiv(a, b) ==
    LET inv == inverse(b)
    IN  IF IsOk(inv) THEN Ok(FieldElementNew(multiply(a, inv.value))) ELSE inv

----------------------------------------------------------------------------
(* point.rs                                                                *)

\* EcPoint::Infinity and EcPoint::Point { x, y }
Infinity == [kind |-> "Infinity"]
Point(x, y) == [kind |-> "Point", x |-> x, y |-> y]

\* the tail both branches of EcPoint::add share: s_squared, x3, y3
EcPointFromSlope(s, x1, y1, x2) ==
    LET s_squared == FieldElementNew(multiply(s, s))
        x3 == FieldSub(FieldSub(s_squared, x1), x2)
        y3 == FieldSub(FieldElementNew(multiply(s, FieldSub(x1, x3))), y1)
    IN  Point(x3, y3)

\* add with an absorbing Infinity: Infinity whenever an operand is Infinity
EcPointAddInfinityAbsorbs(self, other) ==
    IF self.kind = "Infinity" \/ other.kind = "Infinity"
    THEN OkPoint(Infinity)
    ELSE IF self.x = other.x THEN OkPoint(Infinity)
    ELSE
      LET s == FieldDiv(FieldSub(other.y, self.y), FieldSub(other.x, self.x))
      IN  IF ~IsOk(s) THEN s
          ELSE OkPoint(EcPointFromSlope(s.value, self.x, self.y, other.x))

\* add without the y = 0 case: equal points always go to the doubling slope
EcPointAddNoTangentCheck(self, other) ==
    IF self.kind = "Infinity" THEN OkPoint(other)
    ELSE IF other.kind = "Infinity" THEN OkPoint(self)
    ELSE IF self.x = other.x /\ self.y # other.y THEN OkPoint(Infinity)
    ELSE
      LET s == IF self.x = other.x
               THEN FieldDiv(FieldElementNew(multiply(3,
                                 multiply(self.x, self.x))),
                             FieldElementNew(multiply(2, self.y)))
               ELSE FieldDiv(FieldSub(other.y, self.y),
                             FieldSub(other.x, self.x))
      IN  IF ~IsOk(s) THEN s
          ELSE OkPoint(EcPointFromSlope(s.value, self.x, self.y, other.x))

\* EcPoint::add
EcPointAdd(self, other) ==
    IF self.kind = "Infinity" THEN OkPoint(other)
    ELSE IF other.kind = "Infinity" THEN OkPoint(self)
    ELSE
      LET x1 == self.x
          y1 == self.y
          x2 == other.x
          y2 == other.y
      IN  IF x1 = x2
          THEN IF y1 # y2 THEN OkPoint(Infinity)
               ELSE IF y1 = 0 \/ y2 = 0 THEN OkPoint(Infinity)
               ELSE
                 LET raw == U256Add(multiply(3, multiply(x1, x1)), A)
                     denominator == FieldElementNew(multiply(2, y1))
                 IN  IF ~IsOk(raw) THEN raw
                     ELSE
                       LET s == FieldDiv(FieldElementNew(raw.value),
                                         denominator)
                       IN  IF ~IsOk(s) THEN s
                           ELSE OkPoint(EcPointFromSlope(s.value, x1, y1, x2))
          ELSE
            LET s == FieldDiv(FieldSub(y2, y1), FieldSub(x2, x1))
            IN  IF ~IsOk(s) THEN s
                ELSE OkPoint(EcPointFromSlope(s.value, x1, y1, x2))

\* the number of field operations (new, multiply, -, /) the branch of
\* EcPoint::add taken for these operands evaluates
EcPointAddFieldOps(self, other) ==
    IF self.kind = "Infinity" \/ other.kind = "Infinity" THEN 0
    ELSE IF self.x = other.x
    THEN IF self.y # other.y THEN 0
         ELSE IF self.y = 0 \/ other.y = 0 THEN 0
         ELSE 14
    ELSE 11

\* the negation (x, P - y) of a finite point
Negate(point) == Point(point.x, FieldElementNew(P - point.y))

\* the generator G as an affine point
get_generator_affine == Point(FieldElementNew(G_X), FieldElementNew(G_Y))

----------------------------------------------------------------------------
(* projective_point.rs                                                     *)

JacobianPoint(x, y, z) == [x |-> x, y |-> y, z |-> z]

\* JacobianPoint::is_infinity
is_infinity(self) == self.z = 0

\* JacobianPoint::infinity
infinity ==
    JacobianPoint(FieldElementNew(0), FieldElementNew(1), FieldElementNew(0))

\* JacobianPoint::double
JacobianDouble(self) ==
    LET a == FieldMul(self.x, self.x)
        b == FieldMul(self.y, self.y)
        c == FieldMul(b, self.y)
        xb == FieldAdd(self.x, b)
    IN  IF ~IsOk(xb) THEN xb
        ELSE
          LET s == FieldMul(FieldElementNew(2),
                        FieldSub(FieldSub(FieldMul(xb.value, xb.value), a), c))
              m == FieldMul(FieldElementNew(3), a)
              x3 == FieldSub(FieldMul(m, m), FieldMul(FieldElementNew(2), s))
              y3 == FieldSub(FieldMul(m, FieldSub(s, x3)),
                             FieldMul(FieldElementNew(8), c))
              z3 == FieldMul(FieldMul(FieldElementNew(2), self.y), self.z)
          IN  OkPoint(JacobianPoint(x3, y3, z3))

\* the general branch of JacobianPoint::add (no operand infinite, operands
\* not the same triple)
JacobianAddGeneral(self, other) ==
    LET z1_square == FieldMul(self.z, self.z)
        z2_square == FieldMul(other.z, other.z)
        u1 == FieldMul(self.x, z2_square)
        u2 == FieldMul(other.x, z1_square)
        s1 == FieldMul(FieldMul(self.y, z2_square), other.z)
        s2 == FieldMul(FieldMul(other.y, z1_square), self.z)
        h == FieldSub(u2, u1)
        r == FieldSub(s2, s1)
        hh == FieldMul(h, h)
        hhh == FieldMul(hh, h)
        x3 == FieldSub(FieldSub(FieldMul(r, r), hhh),
                  FieldMul(FieldMul(FieldMul(FieldElementNew(2), u1), h), h))
        y3 == FieldSub(FieldMul(r, FieldSub(FieldMul(u1, hh), x3)),
                       FieldMul(s1, hhh))
        z3 == FieldMul(FieldMul(h, self.z), other.z)
    IN  OkPoint(JacobianPoint(x3, y3, z3))

\* JacobianPoint::add without the delegation of equal operands to double
JacobianAddNoDoubling(self, other) ==
    IF is_infinity(self) THEN OkPoint(other)
    ELSE IF is_infinity(other) THEN OkPoint(self)
    ELSE JacobianAddGeneral(self, other)

\* JacobianPoint::add
JacobianAdd(self, other) ==
    IF is_infinity(self) THEN OkPoint(other)
    ELSE IF is_infinity(other) THEN OkPoint(self)
    ELSE IF self = other THEN JacobianDouble(self)
    ELSE JacobianAddGeneral(self, other)

\* impl From<EcPoint> for JacobianPoint
FromEcPoint(ep) ==
    IF ep.kind = "Infinity" THEN infinity
    ELSE JacobianPoint(ep.x, ep.y, FieldElementNew(1))

\* impl From<JacobianPoint> for EcPoint
FromJacobian(jp) ==
    IF is_infinity(jp) THEN OkPoint(Infinity)
    ELSE
      LET z_squared == FieldMul(jp.z, jp.z)
          z_cubed == FieldMul(z_squared, jp.z)
          z_squared_inv == inverse(z_squared)
      IN  IF ~IsOk(z_squared_inv) THEN z_squared_inv
          ELSE
            LET z_cubed_inv == inverse(z_cubed)
            IN  IF ~IsOk(z_cubed_inv) THEN z_cubed_inv
                ELSE OkPoint(Point(FieldMul(jp.x, z_squared_inv.value),
                              FieldMul(jp.y, z_cubed_inv.value)))

----------------------------------------------------------------------------
(* keypair.rs                                                              *)

\* KeyPair::generate: the curve order and the generator are set up, then
\* the body ends in todo!()
KeyPairGenerate ==
    LET n == N
        g_affine == get_generator_affine
        g_jacobian == FromEcPoint(g_affine)
    IN  Panic("not yet implemented")

----------------------------------------------------------------------------
(* The inputs of the calls.                                                *)

\* x^3 mod P
CubeMod(x) == (((x * x) % P) * x) % P

\* is_on_curve: Infinity, or y^2 = x^3 + 7 (mod P)
OnCurve(point) ==
    IF point.kind = "Infinity" THEN TRUE
    ELSE
      LET y_squared == multiply(point.y, point.y)
          x_cubed == multiply(multiply(point.x, point.x), point.x)
          right_side == FieldElementNew(x_cubed + B)
      IN  y_squared = right_side

\* whether a Jacobian triple has z = 0 or satisfies y^2 = x^3 + 7*z^6 (mod P)
OnCurveJacobian(j) ==
    \/ j.z = 0
    \/ (j.y * j.y) % P = (CubeMod(j.x) + B * CubeMod((j.z * j.z) % P)) % P

\* every affine value: Infinity and every Point { x, y }
AffinePoints == {Infinity} \cup {Point(x, y) : x \in Field, y \in Field}

\* the finite points of the curve
CurvePoints == {p \in AffinePoints : p.kind = "Point" /\ OnCurve(p)}

\* the representatives (x*z^2, y*z^3, z), z in 1..MaxZ, of the curve points
JacobianReps ==
    {JacobianPoint((p.x * z * z) % P, (p.y * z * z * z) % P, z) :
        p \in CurvePoints, z \in 1 .. MaxZ}

\* arbitrary triples with small coordinates: among them the infinite ones
\* (z = 0), canonical (0, 1, 0) or not, and triples off the curve
SmallTriples ==
    {JacobianPoint(x, y, z) :
        x \in 0 .. MaxCoord, y \in 0 .. MaxCoord, z \in 0 .. MaxCoord}

JacobianInputs == JacobianReps \cup SmallTriples

\* the representatives whose pairs are added in both representations
JacobianPairReps == {j \in JacobianReps : j.z <= MaxZPair}

\* every Point { x, y }, on the curve or not
FinitePoints == AffinePoints \ {Infinity}

\* the points of the curve, Infinity among them
CurveOrInfinity == CurvePoints \cup {Infinity}

\* the operand pairs of EcPoint::add: two points of the curve; Infinity and
\* any affine value, in either order; any finite point and its negation
EcPointAddInputs ==
    (CurveOrInfinity \X CurveOrInfinity)
        \cup {<<Infinity, q>> : q \in AffinePoints}
        \cup {<<q, Infinity>> : q \in AffinePoints}
        \cup {<<q, Negate(q)>> : q \in FinitePoints}

----------------------------------------------------------------------------
(* The calls.                                                              *)

\* the state a finished call leaves: returned, panicked, or never finished
Finish(c, outcome) ==
    /\ call' = c
    /\ ret' = outcome
    /\ pc' = CASE outcome.status = "ok" -> "returned"
               [] outcome.status = "panic" -> "panicked"
               [] OTHER -> "hung"

CallFieldAdd ==
    /\ pc = "idle"
    /\ \E a \in Field, b \in Field :
          Finish([op |-> "add", a |-> a, b |-> b], FieldAdd(a, b))
    /\ UNCHANGED <<euclid, visited>>

\* FieldElement::new(raw) for a raw word
CallFieldElementNew ==
    /\ pc = "idle"
    /\ \E raw \in 0 .. (U256Limit - 1) :
          Finish([op |-> "new", raw |-> raw], Ok(FieldElementNew(raw)))
    /\ UNCHANGED <<euclid, visited>>

CallFieldSub ==
    /\ pc = "idle"
    /\ \E a \in Field, b \in Field :
          Finish([op |-> "sub", a |-> a, b |-> b], Ok(FieldSub(a, b)))
    /\ UNCHANGED <<euclid, visited>>

CallFieldMul ==
    /\ pc = "idle"
    /\ \E a \in Field, b \in Field :
          Finish([op |-> "mul", a |-> a, b |-> b], Ok(FieldMul(a, b)))
    /\ UNCHANGED <<euclid, visited>>

CallFieldDiv ==
    /\ pc = "idle"
    /\ \E a \in Field, b \in Field :
          Finish([op |-> "div", a |-> a, b |-> b], FieldDiv(a, b))
    /\ UNCHANGED <<euclid, visited>>

CallEcPointAdd ==
    /\ pc = "idle"
    /\ \E pq \in EcPointAddInputs :
          Finish([op |-> "ec_add", p |-> pq[1], q |-> pq[2]],
                 EcPointAdd(pq[1], pq[2]))
    /\ UNCHANGED <<euclid, visited>>

\* an outcome carried through one more add: self.add(other) where self is
\* the result of an earlier call, other.add(self) likewise
EcPointAddToOutcome(outcome, other) ==
    IF IsOk(outcome) THEN EcPointAdd(outcome.point, other) ELSE outcome

EcPointAddOutcome(self, outcome) ==
    IF IsOk(outcome) THEN EcPointAdd(self, outcome.point) ELSE outcome

\* left = q.add(r).add(s) and right = q.add(r.add(s))
CallEcPointAddAssociativity ==
    /\ pc = "idle"
    /\ \E q \in CurveOrInfinity, r \in CurveOrInfinity, s \in CurveOrInfinity :
          LET left == EcPointAddToOutcome(EcPointAdd(q, r), s)
              right == EcPointAddOutcome(q, EcPointAdd(r, s))
          IN  Finish([op |-> "ec_add_assoc", q |-> q, r |-> r, s |-> s],
                     [status |-> IF IsOk(left) THEN right.status
                                 ELSE left.status,
                      left |-> left, right |-> right])
    /\ UNCHANGED <<euclid, visited>>

CallJacobianDouble ==
    /\ pc = "idle"
    /\ \E j \in JacobianInputs :
          Finish([op |-> "double", j |-> j], JacobianDouble(j))
    /\ UNCHANGED <<euclid, visited>>

CallJacobianAdd ==
    /\ pc = "idle"
    /\ \E j1 \in JacobianInputs, j2 \in JacobianInputs :
          Finish([op |-> "jacobian_add", j1 |-> j1, j2 |-> j2],
                 JacobianAdd(j1, j2))
    /\ UNCHANGED <<euclid, visited>>

\* a Jacobian outcome converted to affine: EcPoint::from(j) where j is the
\* result of an earlier call
FromJacobianOutcome(outcome) ==
    IF IsOk(outcome) THEN FromJacobian(outcome.point) ELSE outcome

\* conv = EcPoint::from(j1.add(&j2)) and
\* aff = EcPoint::from(j1).add(EcPoint::from(j2))
CallJacobianAddToAffine ==
    /\ pc = "idle"
    /\ \E j1 \in JacobianPairReps, j2 \in JacobianPairReps :
          LET conv == FromJacobianOutcome(JacobianAdd(j1, j2))
              a1 == FromJacobian(j1)
              a2 == FromJacobian(j2)
              aff == IF ~IsOk(a1) THEN a1
                     ELSE IF ~IsOk(a2) THEN a2
                     ELSE EcPointAdd(a1.point, a2.point)
          IN  Finish([op |-> "jacobian_add_affine", j1 |-> j1, j2 |-> j2],
                     [status |-> IF IsOk(conv) THEN aff.status
                                 ELSE conv.status,
                      conv |-> conv, aff |-> aff])
    /\ UNCHANGED <<euclid, visited>>

\* JacobianPoint::from(ep)
CallFromEcPoint ==
    /\ pc = "idle"
    /\ \E ep \in AffinePoints :
          Finish([op |-> "from_ecpoint", ep |-> ep], OkPoint(FromEcPoint(ep)))
    /\ UNCHANGED <<euclid, visited>>

\* EcPoint::from(JacobianPoint::from(ep))
CallRoundTrip ==
    /\ pc = "idle"
    /\ \E ep \in AffinePoints :
          Finish([op |-> "roundtrip", ep |-> ep],
                 FromJacobian(FromEcPoint(ep)))
    /\ UNCHANGED <<euclid, visited>>

\* a curve point is taken into both representations
StartDoublingChain ==
    /\ pc = "idle"
    /\ \E q \in CurvePoints :
          /\ call' = [op |-> "double_chain", q |-> q, k |-> 0]
          /\ ret' = [status |-> "chain",
                     jac |-> OkPoint(FromEcPoint(q)),
                     aff |-> OkPoint(q),
                     conv |-> OkPoint(q)]
    /\ pc' = "chain"
    /\ UNCHANGED <<euclid, visited>>

\* both are doubled once more, the Jacobian one by double, the affine one
\* by add with itself, and the Jacobian result is converted to affine
DoublingChainStep ==
    /\ pc = "chain"
    /\ call.k < MaxDoublings
    /\ IsOk(ret.jac) /\ IsOk(ret.aff)
    /\ LET jac == JacobianDouble(ret.jac.point)
       IN  ret' = [status |-> "chain",
                   jac |-> jac,
                   aff |-> EcPointAdd(ret.aff.point, ret.aff.point),
                   conv |-> IF IsOk(jac) THEN FromJacobian(jac.point) ELSE jac]
    /\ call' = [call EXCEPT !.k = @ + 1]
    /\ UNCHANGED <<pc, euclid, visited>>

CallKeyPairGenerate ==
    /\ pc = "idle"
    /\ Finish([op |-> "generate"], KeyPairGenerate)
    /\ UNCHANGED <<euclid, visited>>

\* a.inverse(): the guards, then either a panic or the loop is entered
CallInverse ==
    /\ pc = "idle"
    /\ \E a \in Field :
          LET e == InverseEntry(a)
              c == [op |-> "inverse", a |-> a]
          IN  IF e.status = "loop"
              THEN /\ call' = c
                   /\ pc' = "inverse_loop"
                   /\ euclid' = e.state
                   /\ UNCHANGED <<ret, visited>>
              ELSE /\ Finish(c, e)
                   /\ UNCHANGED <<euclid, visited>>

\* while new_r != 0 { ... }
InverseIter ==
    /\ pc = "inverse_loop"
    /\ euclid.new_r # 0
    /\ euclid' = InverseStep(euclid)
    /\ visited' = visited \cup {euclid}
    /\ UNCHANGED <<pc, call, ret>>

\* the loop is left: the gcd check and the return
InverseExit ==
    /\ pc = "inverse_loop"
    /\ euclid.new_r = 0
    /\ Finish(call, InverseFinish(euclid))
    /\ UNCHANGED <<euclid, visited>>

\* the caller goes on to its next call
Reset ==
    /\ pc \in {"returned", "panicked", "chain"}
    /\ pc' = "idle"
    /\ call' = NoCall
    /\ ret' = NoRet
    /\ euclid' = NoLoop
    /\ visited' = {}

Init ==
    /\ pc = "idle"
    /\ call = NoCall
    /\ ret = NoRet
    /\ euclid = NoLoop
    /\ visited = {}

Next ==
    \/ CallFieldElementNew
    \/ CallFieldAdd
    \/ CallFieldSub
    \/ CallFieldMul
    \/ CallFieldDiv
    \/ CallInverse
    \/ InverseIter
    \/ InverseExit
    \/ CallEcPointAdd
    \/ CallEcPointAddAssociativity
    \/ CallJacobianDouble
    \/ CallJacobianAdd
    \/ CallJacobianAddToAffine
    \/ CallFromEcPoint
    \/ CallRoundTrip
    \/ StartDoublingChain
    \/ DoublingChainStep
    \/ CallKeyPairGenerate
    \/ Reset

Spec == Init /\ [][Next]_vars

\* inverse alone; a call that is running keeps running
NextInverse ==
    \/ CallInverse
    \/ InverseIter
    \/ InverseExit
    \/ Reset

FairInverseSpec ==
    Init /\ [][NextInverse]_vars /\ WF_vars(InverseIter \/ InverseExit)

----------------------------------------------------------------------------
(* Properties.                                                             *)

\* a call of inverse is inside its while loop
InverseRunning == pc = "inverse_loop"

\* a call of inverse has returned r with a * r = 1
InverseReturnedInverse ==
    /\ pc = "returned"
    /\ call.op = "inverse"
    /\ FieldMul(call.a, ret.value) = 1

\* C1: for every a in [1, P-1], a.inverse() returns an element r with
\* a * r = 1: every such call that has entered inverse eventually returns,
\* and what it returns is the multiplicative inverse.
InverseReturnsInverse ==
    InverseRunning ~> InverseReturnedInverse

\* C2: inverse terminates for every canonical nonzero input: the while loop
\* never comes back to a loop state (t, new_t, r, new_r) it has been in.
InverseLoopNeverRepeats ==
    pc = "inverse_loop" => euclid \notin visited

\* C3: a + b completes without an overflow failure and has the value
\* (a.value + b.value) mod P, for all canonical a and b up to (P-1) + (P-1).
FieldAddClosedTotal ==
    call.op = "add" =>
        (pc = "returned" /\ ret.value = (call.a + call.b) % P)

\* C9: inverse of the zero element panics with "Cannot inverse a zero value"
\* without entering the Euclid loop, and a / b with b = 0 panics with the
\* same message for every a; no value is returned.
ZeroHasNoInverse ==
    /\ (call.op = "inverse" /\ call.a = 0) =>
          (/\ pc = "panicked"
           /\ ret = Panic("Cannot inverse a zero value")
           /\ euclid = NoLoop
           /\ visited = {})
    /\ (call.op = "div" /\ call.b = 0) =>
          (/\ pc = "panicked"
           /\ ret = Panic("Cannot inverse a zero value"))

\* C9 witness: 10 / 0 has been evaluated and has panicked.
ZeroDivisorPanicked ==
    /\ call.op = "div" /\ call.a = 10 /\ call.b = 0
    /\ pc = "panicked"

\* C10: a * b returns (a.value * b.value) mod P of the exact double-width
\* product, and the bits dropped when the reduced value is narrowed to one
\* word are all zero; up to (P-1) * (P-1).
FieldMulExact ==
    call.op = "mul" =>
        (/\ pc = "returned"
         /\ ret.value = (call.a * call.b) % P
         /\ ((call.a * call.b) % P) \div U256Limit = 0)

\* C10 witness: (P-1) * (P-1) has returned 1.
FieldMulLargestOperands ==
    /\ call.op = "mul" /\ call.a = P - 1 /\ call.b = P - 1
    /\ pc = "returned" /\ ret.value = 1

\* C4: double, add and from(EcPoint) keep the curve equation: when the
\* inputs satisfy it (z = 0 or y^2 = x^3 + 7*z^6; affine: y^2 = x^3 + 7),
\* the triple returned has z = 0 or satisfies y^2 = x^3 + 7*z^6 (mod P).
JacobianCurveInvariant ==
    /\ (call.op = "double" /\ OnCurveJacobian(call.j) /\ pc = "returned")
          => OnCurveJacobian(ret.point)
    /\ (/\ call.op = "jacobian_add"
        /\ OnCurveJacobian(call.j1) /\ OnCurveJacobian(call.j2)
        /\ pc = "returned")
          => OnCurveJacobian(ret.point)
    /\ (call.op = "from_ecpoint" /\ OnCurve(call.ep))
          => OnCurveJacobian(ret.point)

\* C5: for every curve point Q with y != 0, the affine form of
\* JacobianPoint::from(Q) doubled k times (k = 1, 2, 3: 2Q, 4Q, 8Q) is the
\* point k affine self-additions give.
JacobianDoublingMatchesAffine ==
    (call.op = "double_chain" /\ call.q.y # 0 /\ call.k >= 1) =>
        (/\ IsOk(ret.conv)
         /\ IsOk(ret.aff)
         /\ ret.conv.point = ret.aff.point)

\* C6: EcPoint::from(JacobianPoint::from(Q)) returns Q, for Infinity and
\* for every Point { x, y }.
RoundTripIsIdentity ==
    call.op = "roundtrip" => (pc = "returned" /\ ret.point = call.ep)

\* C7 as stated: for every triple J, those with z = 0 included, J.add(&J)
\* is the same (x, y, z) as J.double().
DoubleEqualsAddSelf ==
    (call.op = "jacobian_add" /\ call.j1 = call.j2) =>
        ret = JacobianDouble(call.j1)

\* C7 amended: for every triple J with z != 0, J.add(&J) has the outcome of
\* J.double() (the same triple, or the same panic); for z = 0, J.add(&J)
\* returns J itself.
DoubleEqualsAddSelfFinite ==
    (call.op = "jacobian_add" /\ call.j1 = call.j2) =>
        IF is_infinity(call.j1)
        THEN ret = OkPoint(call.j1)
        ELSE ret = JacobianDouble(call.j1)

\* C7 witness: G.add(&G) has returned, G = (G_X, G_Y, 1).
GeneratorAddedToItself ==
    /\ call.op = "jacobian_add"
    /\ call.j1 = FromEcPoint(get_generator_affine)
    /\ call.j2 = call.j1
    /\ pc = "returned"
    /\ ~is_infinity(ret.point)

\* the inverse of a nonzero residue, by its defining equation
RefInverse(a) == CHOOSE r \in Field : (a * r) % P = 1

\* the group law of the curve, by the chord-and-tangent formulas
RefAdd(p, q) ==
    IF p.kind = "Infinity" THEN q
    ELSE IF q.kind = "Infinity" THEN p
    ELSE IF p.x = q.x /\ (p.y + q.y) % P = 0 THEN Infinity
    ELSE
      LET s == IF p.x = q.x
               THEN (3 * p.x * p.x * RefInverse((2 * p.y) % P)) % P
               ELSE (((q.y - p.y) % P) * RefInverse((q.x - p.x) % P)) % P
          x3 == (s * s - p.x - q.x) % P
      IN  Point(x3, (s * (p.x - x3) - p.y) % P)

\* k * p by repeated addition
RECURSIVE RefScalarMul(_, _)
RefScalarMul(k, p) ==
    IF k = 0 THEN Infinity ELSE RefAdd(RefScalarMul(k - 1, p), p)

\* C8: KeyPair::generate returns a key pair with 0 < k < N whose public key
\* is the affine form of k * G; it does not abort.
KeyPairGenerateReturns ==
    call.op = "generate" =>
        (/\ pc = "returned"
         /\ ret.keypair.private_key \in 1 .. (N - 1)
         /\ ret.keypair.public_key =
               RefScalarMul(ret.keypair.private_key, get_generator_affine))

\* the operations that return a FieldElement
FieldOps == {"new", "add", "sub", "mul", "div", "inverse"}

\* C11: every FieldElement returned by FieldElement::new, by +, -, *, / and
\* by inverse has its value in [0, P); new returns for every raw word, and
\* what it returns is raw mod P.
CanonicalForm ==
    /\ (call.op \in FieldOps /\ pc = "returned") => ret.value \in Field
    /\ call.op = "new" =>
          (pc = "returned" /\ ret.value = call.raw % P)

\* C11 witness: new of the largest word, U256::MAX, has returned.
LargestWordReduced ==
    /\ call.op = "new" /\ call.raw = U256Limit - 1
    /\ pc = "returned" /\ ret.value = U256Limit - 1 - P

\* C12: for all canonical a and b, a - b returns the element with value
\* (a.value - b.value) mod P in [0, P); for a.value < b.value that is
\* P - (b.value - a.value), and a - a is 0.
FieldSubClosed ==
    call.op = "sub" =>
        (/\ pc = "returned"
         /\ ret.value \in Field
         /\ (ret.value + call.b) % P = call.a
         /\ call.a < call.b => ret.value = P - (call.b - call.a)
         /\ call.a = call.b => ret.value = 0)

\* C12 witness: 0 - (P-1) has wrapped around to 1.
FieldSubWrapped ==
    /\ call.op = "sub" /\ call.a = 0 /\ call.b = P - 1
    /\ pc = "returned" /\ ret.value = 1

\* C13: Infinity.add(Q) and Q.add(Infinity) return Q for every affine value
\* Q, on the curve or not, and Infinity.add(Infinity) returns Infinity; no
\* field operation is performed in these cases.
AffineIdentityLaws ==
    /\ (call.op = "ec_add" /\ call.p = Infinity) =>
          (/\ pc = "returned"
           /\ ret = OkPoint(call.q)
           /\ EcPointAddFieldOps(call.p, call.q) = 0)
    /\ (call.op = "ec_add" /\ call.q = Infinity) =>
          (/\ pc = "returned"
           /\ ret = OkPoint(call.p)
           /\ EcPointAddFieldOps(call.p, call.q) = 0)

\* C13 witness: Q.add(Infinity) has returned Q for Q = (1, 1), which is not
\* on the curve.
OffCurvePointPlusInfinity ==
    /\ call.op = "ec_add" /\ call.p = Point(1, 1) /\ call.q = Infinity
    /\ ~OnCurve(call.p)
    /\ pc = "returned" /\ ret.point = Point(1, 1)

\* C14: for every Point { x, y }, on the curve or not, the point plus its
\* negation (x, new(P - y)) returns Infinity, in either operand order; for
\* y = 0 the point is its own negation and the sum is Infinity too.
AffineInverseLaw ==
    (/\ call.op = "ec_add"
     /\ call.p.kind = "Point" /\ call.q.kind = "Point"
     /\ (call.q = Negate(call.p) \/ call.p = Negate(call.q))) =>
        (pc = "returned" /\ ret = OkPoint(Infinity))

\* C14 witness: (5, 0), its own negation, added to itself has returned
\* Infinity.
ZeroYPointPlusItself ==
    /\ call.op = "ec_add" /\ call.p = Point(5, 0) /\ call.q = Point(5, 0)
    /\ Negate(call.p) = call.p
    /\ pc = "returned" /\ ret.point = Infinity

\* C15: for all points Q and R of the curve (Infinity included), Q.add(R)
\* and R.add(Q) both return, and they return the same point.
AffineAddCommutes ==
    (call.op = "ec_add" /\ OnCurve(call.p) /\ OnCurve(call.q)) =>
        (/\ pc = "returned"
         /\ EcPointAdd(call.q, call.p) = ret)

\* C16: for all points Q, R, S of the curve (Infinity included), also where
\* an intermediate sum is Infinity or equals the third operand,
\* Q.add(R).add(S) and Q.add(R.add(S)) return the same point.
AffineAddAssociates ==
    call.op = "ec_add_assoc" =>
        (/\ pc = "returned"
         /\ ret.left = ret.right)

\* C17: for all Q and R that are Infinity or satisfy y^2 = x^3 + 7 (mod P),
\* Q.add(R) returns a point that is Infinity or satisfies the equation, in
\* the doubling branch and in the distinct-x branch.
AffineAddClosed ==
    (call.op = "ec_add" /\ OnCurve(call.p) /\ OnCurve(call.q)) =>
        (/\ pc = "returned"
         /\ OnCurve(ret.point))

\* whether two triples with z != 0 stand for the same affine x, the same
\* affine y: x1*z2^2 = x2*z1^2, y1*z2^3 = y2*z1^3 (mod P)
SameAffineX(j1, j2) ==
    (j1.x * j2.z * j2.z) % P = (j2.x * j1.z * j1.z) % P

SameAffineY(j1, j2) ==
    (j1.y * j2.z * j2.z * j2.z) % P = (j2.y * j1.z * j1.z * j1.z) % P

\* y1*z2^3 = -y2*z1^3 (mod P)
OppositeAffineY(j1, j2) ==
    (j1.y * j2.z * j2.z * j2.z + j2.y * j1.z * j1.z * j1.z) % P = 0

\* C18: for all valid Jacobian points J1 and J2 with z != 0 whose affine
\* points have different x-coordinates, EcPoint::from(J1.add(&J2)) equals
\* EcPoint::from(J1).add(EcPoint::from(J2)).
JacobianAddMatchesAffine ==
    (/\ call.op = "jacobian_add_affine"
     /\ ~SameAffineX(call.j1, call.j2)) =>
        (/\ pc = "returned"
         /\ ret.conv = ret.aff)

\* the affine point (x/z^2, y/z^3) a triple with z != 0 stands for
RefAffine(j) ==
    LET zi == RefInverse(j.z)
    IN  Point((j.x * zi * zi) % P, (j.y * zi * zi * zi) % P)

\* a valid Jacobian point that is not infinite
ValidFinite(j) == j.z # 0 /\ OnCurveJacobian(j)

\* C19: for valid Jacobian points J1 and J2 with z != 0, J1.add(&J2) is
\* infinite only when J1 and J2 stand for opposite affine points; when they
\* are different triples of one affine point Q with y != 0, the sum is a
\* triple with z != 0 that stands for 2Q.
JacobianAddInfiniteOnlyForOpposites ==
    (/\ call.op = "jacobian_add"
     /\ ValidFinite(call.j1) /\ ValidFinite(call.j2)
     /\ pc = "returned") =>
        (/\ is_infinity(ret.point) =>
               (SameAffineX(call.j1, call.j2)
                  /\ OppositeAffineY(call.j1, call.j2))
         /\ (/\ call.j1 # call.j2
             /\ SameAffineX(call.j1, call.j2)
             /\ SameAffineY(call.j1, call.j2)
             /\ call.j1.y # 0) =>
               (/\ ~is_infinity(ret.point)
                /\ RefAffine(ret.point) =
                      RefAdd(RefAffine(call.j1), RefAffine(call.j1))))

\* C20: double returns a triple with z = 0 exactly when its input has z = 0
\* or y = 0: every triple with z = 0 doubles to a triple with z = 0, a
\* triple with y = 0 too, and every other input gives z != 0.
JacobianDoubleInfiniteExactly ==
    call.op = "double" =>
        (/\ pc = "returned"
         /\ is_infinity(ret.point) <=> (call.j.z = 0 \/ call.j.y = 0))

====
